---- MODULE Spec2Model ----
(***************************************************************************)
(* Model of rally/task/processing/plot.py, class Trends: the canonical     *)
(* string of a workload configuration (_to_str), the group key             *)
(* (_make_hash), the fold of one workload result into its group            *)
(* (add_result) and the rendering of the groups (get_data).                *)
(*                                                                         *)
(* Python text is a sequence of code points (Naturals), so that strip,     *)
(* join, sorted and float() are computed and not assumed.                  *)
(***************************************************************************)
EXTENDS Integers, Sequences, FiniteSets, TLC

VARIABLES
    data,    \* Trends._data: the groups, in insertion order of their keys
    ret,     \* outcome of the last call on the Trends object
    log,     \* history: the results handed to add_result, with each outcome
    py3,     \* the interpreter orders str against float by raising (TRUE) or not
    obj,     \* canonicalizer: the configuration object, as last reordered
    orig,    \* canonicalizer: the configuration object as first given
    canon,   \* canonicalizer: _make_hash(obj)
    canon0   \* canonicalizer: _make_hash(orig)

vars == <<data, ret, log, py3, obj, orig, canon, canon0>>

----------------------------------------------------------------------------
(* Bounds of the model *)

\* add_result calls in one behaviour
MaxFolds == 3

\* elements of a sequence, and pairs of a mapping, of a configuration handed to _make_hash
MaxLen == 2

----------------------------------------------------------------------------
(* Text *)

\* "abc"[i:j] on 1-based inclusive positions
Slice(s, i, j) == [k \in 1..(j - i + 1) |-> s[i + k - 1]]

\* str.isspace() of one ASCII code point
IsSpace(c) == c \in {9, 10, 11, 12, 13, 32}

RECURSIVE LStrip(_)
LStrip(s) ==
    IF s # <<>> /\ IsSpace(Head(s)) THEN LStrip(Tail(s)) ELSE s

RECURSIVE RStrip(_)
RStrip(s) ==
    IF s # <<>> /\ IsSpace(s[Len(s)]) THEN RStrip(Slice(s, 1, Len(s) - 1)) ELSE s

\* str.strip()
Strip(s) == RStrip(LStrip(s))

\* str.rstrip(chars)
RECURSIVE RStripChars(_, _)
RStripChars(s, chars) ==
    IF s # <<>> /\ s[Len(s)] \in chars
    THEN RStripChars(Slice(s, 1, Len(s) - 1), chars)
    ELSE s

RECURSIVE Digits(_)
Digits(n) == IF n < 10 THEN <<48 + n>> ELSE Digits(n \div 10) \o <<48 + (n % 10)>>

\* str(int)
IntToStr(n) == IF n < 0 THEN <<45>> \o Digits(0 - n) ELSE Digits(n)

\* str(float) of a float given in tenths (15 is 1.5, 20 is 2.0)
FloatToStr(t) ==
    IF t < 0
    THEN <<45>> \o Digits((0 - t) \div 10) \o <<46>> \o Digits((0 - t) % 10)
    ELSE Digits(t \div 10) \o <<46>> \o Digits(t % 10)

\* a < b on str: by code point, a proper prefix first
RECURSIVE StrLess(_, _)
StrLess(a, b) ==
    IF b = <<>> THEN FALSE
    ELSE IF a = <<>> THEN TRUE
    ELSE IF Head(a) # Head(b) THEN Head(a) < Head(b)
    ELSE StrLess(Tail(a), Tail(b))

\* one step of sorted(): s is sorted, x goes after every element not above it
RECURSIVE InsertStr(_, _)
InsertStr(s, x) ==
    IF s = <<>> THEN <<x>>
    ELSE IF StrLess(x, Head(s)) THEN <<x>> \o s
    ELSE <<Head(s)>> \o InsertStr(Tail(s), x)

\* sorted(list of str)
RECURSIVE SortedStrs(_)
SortedStrs(s) ==
    IF s = <<>> THEN <<>>
    ELSE InsertStr(SortedStrs(Slice(s, 1, Len(s) - 1)), s[Len(s)])

\* sep.join(list of str)
RECURSIVE Join(_, _)
Join(sep, s) ==
    IF s = <<>> THEN <<>>
    ELSE IF Len(s) = 1 THEN s[1]
    ELSE s[1] \o sep \o Join(sep, Tail(s))

----------------------------------------------------------------------------
(* Python values of a configuration (result["key"]["kw"]).                 *)
(* t: "none", "str", "int", "float" (n in tenths), "list" (list or tuple), *)
(* "dict" (kids are its items, in iteration order, each a "pair" of key    *)
(* and value), "set" (a type _to_str does not know).                      *)

Node(t, n, s, kids) == [t |-> t, n |-> n, s |-> s, kids |-> kids]

PyNone == Node("none", 0, <<>>, <<>>)
PyStr(s) == Node("str", 0, s, <<>>)
PyInt(n) == Node("int", n, <<>>, <<>>)
PyFloat(t) == Node("float", t, <<>>, <<>>)
PyList(kids) == Node("list", 0, <<>>, kids)
PySet(kids) == Node("set", 0, <<>>, kids)
PyPair(k, v) == Node("pair", 0, <<>>, <<k, v>>)
PyDict(items) == Node("dict", 0, <<>>, items)

\* the outcome of an expression: a value, or the exception it raised
Ok(v) == [exc |-> "", v |-> v]
Raise(e) == [exc |-> e, v |-> <<>>]

\* the first exception among the outcomes rs, "" when none raised
RECURSIVE FirstExc(_)
FirstExc(rs) ==
    IF rs = <<>> THEN ""
    ELSE IF Head(rs).exc # "" THEN Head(rs).exc
    ELSE FirstExc(Tail(rs))

\* a _to_str that joins the parts in the order met
ToStrUnsorted(strs) == strs

\* sorted(strs) as _to_str uses it
ToStrSorted(strs) == SortedStrs(strs)

\* a _to_str that renders an unknown type instead of raising
UnexpectedRendered(o) == Ok(<<63>>)

\* raise TypeError("Unexpected type ...")
Unexpected(o) == Raise("TypeError")

\* Trends._to_str
RECURSIVE ToStr(_)
ToStr(o) ==
    CASE o.t = "none" -> Ok(<<78, 111, 110, 101>>)
      [] o.t = "str" -> Ok(Strip(o.s))
      [] o.t = "int" -> Ok(Strip(IntToStr(o.n)))
      [] o.t = "float" -> Ok(Strip(FloatToStr(o.n)))
      [] o.t = "list" ->
            LET rs == [i \in 1..Len(o.kids) |-> ToStr(o.kids[i])]
            IN  IF FirstExc(rs) # "" THEN Raise(FirstExc(rs))
                ELSE Ok(Join(<<44>>, ToStrSorted([i \in 1..Len(rs) |-> rs[i].v])))
      [] o.t = "dict" ->
            LET rs == [i \in 1..Len(o.kids) |->
                        LET k == ToStr(o.kids[i].kids[1])
                            v == ToStr(o.kids[i].kids[2])
                        IN  IF k.exc # "" THEN k
                            ELSE IF v.exc # "" THEN v
                            ELSE Ok(Join(<<58>>, <<k.v, v.v>>))]
            IN  IF FirstExc(rs) # "" THEN Raise(FirstExc(rs))
                ELSE Ok(Join(<<124>>, ToStrSorted([i \in 1..Len(rs) |-> rs[i].v])))
      [] OTHER -> Unexpected(o)

\* hashlib.md5(...).hexdigest(), taken as injective: the digest stands for the
\* text it was computed from
Md5Hex(s) == s

\* Trends._make_hash
MakeHash(o) ==
    LET r == ToStr(o)
    IN  IF r.exc # "" THEN r ELSE Ok(Md5Hex(r.v))

----------------------------------------------------------------------------
(* The canonicalizer on reordered configurations *)

S_a == <<97>>
S_b == <<98>>
S_a_padded == <<32, 97, 32>>

KwList32 == PyList(<<PyInt(3), PyInt(2)>>)
KwList23 == PyList(<<PyInt(2), PyInt(3)>>)

\* {"a": 1, "b": [3, 2]}, the permuted {"b": [2, 3], "a": 1}, and {"a": 2, "b": [3, 2]}
KwA1 == PyDict(<<PyPair(PyStr(S_a), PyInt(1)), PyPair(PyStr(S_b), KwList32)>>)
KwA2 == PyDict(<<PyPair(PyStr(S_b), KwList23), PyPair(PyStr(S_a), PyInt(1))>>)
KwB == PyDict(<<PyPair(PyStr(S_a), PyInt(2)), PyPair(PyStr(S_b), KwList32)>>)

\* the values nested in a configuration
Inner ==
    { PyNone, PyStr(S_a), PyStr(S_a_padded), PyInt(1), PyFloat(15),
      KwList32, KwA1, PySet(<<>>) }

\* the keys of a mapping
Keys == { PyStr(S_a), PyStr(S_b), PyInt(1) }

\* the sequences over S of length 0..n
SeqsUpTo(S, n) == UNION { [1..k -> S] : k \in 0..n }

\* the configurations handed to _make_hash: sequences and mappings (one key order each,
\* every other order is reached by Reorder) of nested values
Configs ==
    { PyList(kids) : kids \in SeqsUpTo(Inner, MaxLen) }
    \cup { PyDict([i \in 1..Len(ks) |-> PyPair(ks[i], vs[i])]) :
             <<ks, vs>> \in UNION { { <<k, v>> : k \in { q \in [1..n -> Keys] :
                                                        \A i, j \in 1..n : i < j => q[i] # q[j] },
                                                 v \in [1..n -> Inner] } : n \in 0..MaxLen } }

\* s with its elements i and i+1 exchanged
SwapAt(s, i) ==
    [k \in 1..Len(s) |-> IF k = i THEN s[i + 1] ELSE IF k = i + 1 THEN s[i] ELSE s[k]]

\* every object that is o with two neighbours exchanged, in o itself or in a
\* sequence or mapping nested in it: the same list in another order, the same
\* dict in another iteration order
RECURSIVE Reordered(_)
Reordered(o) ==
    IF o.t \notin {"list", "dict", "pair"} THEN {}
    ELSE (IF o.t = "pair" THEN {}
          ELSE { [o EXCEPT !.kids = SwapAt(o.kids, i)] : i \in 1..(Len(o.kids) - 1) })
         \cup UNION { { [o EXCEPT !.kids[j] = w] : w \in Reordered(o.kids[j]) } :
                      j \in 1..Len(o.kids) }

InitCanon ==
    /\ data = <<>>
    /\ ret = [op |-> "init", exc |-> "", v |-> <<>>]
    /\ log = <<>>
    /\ py3 = TRUE
    /\ orig \in Configs
    /\ obj = orig
    /\ canon0 = MakeHash(orig)
    /\ canon = MakeHash(orig)

\* the caller hands the same configuration in another order and hashes it
Reorder ==
    /\ \E o \in Reordered(obj) :
          /\ obj' = o
          /\ canon' = MakeHash(o)
    /\ UNCHANGED <<data, ret, log, py3, orig, canon0>>

NextCanon == Reorder

SpecCanon == InitCanon /\ [][NextCanon]_vars

\* C2: a mapping in any key order and a sequence in any element order, at
\* every nesting depth, has the same canonical string and so the same group key
C2_OrderIndependent == canon = canon0

\* a mapping nested in a sequence was reordered, and the hash was computed
C2_Witness ==
    /\ obj.t = "list"
    /\ canon.exc = ""
    /\ obj # orig
    /\ \E i \in 1..Len(obj.kids) :
          /\ obj.kids[i].t = "dict"
          /\ Len(orig.kids) >= i
          /\ orig.kids[i].t = "dict"
          /\ obj.kids[i] # orig.kids[i]

----------------------------------------------------------------------------
(* Workload results (the argument of add_result) *)

\* a cell of a stat row: a number (float or int) or a text
Num(n) == [t |-> "num", n |-> n, s |-> <<>>]
Txt(s) == [t |-> "str", n |-> 0, s |-> s]

S_total == <<116, 111, 116, 97, 108>>
S_na == <<110, 47, 97>>
S_100pct == <<49, 48, 48, 46, 48, 37>>
S_50pct == <<53, 48, 46, 48, 37>>
S_NameAx == <<65, 46, 120>>
S_NameBy == <<66, 46, 121>>

\* info.stat.cols as the stats table renders them
FullCols ==
    <<"Action", "Min (sec)", "Median (sec)", "90%ile (sec)", "95%ile (sec)",
      "Max (sec)", "Avg (sec)", "Success", "Count">>

\* a full row of action `name`: durations from v up, success text succ
Row(name, v, succ) ==
    <<Txt(name), Num(v), Num(v + 1), Num(v + 2), Num(v + 3), Num(v + 4), Num(v + 1),
      Txt(succ), Num(1)>>

\* the row with its "Min (sec)" cell not available
RowMinNA(name, v, succ) == [Row(name, v, succ) EXCEPT ![2] = Txt(S_na)]

\* a table that has no column col: the column and its cell in every row are gone
DropCol(cols, rows, col) ==
    LET p == CHOOSE i \in 1..Len(cols) : cols[i] = col
        Cut(r) == [k \in 1..(Len(r) - 1) |-> IF k < p THEN r[k] ELSE r[k + 1]]
    IN  [cols |-> Cut(cols), rows |-> [i \in 1..Len(rows) |-> Cut(rows[i])]]

Table(rows) == [cols |-> FullCols, rows |-> rows]

\* "total" and the atomic action "a", all numeric
StatOK(v) == Table(<<Row(S_total, v, S_100pct), Row(S_a, v + 1, S_50pct)>>)

\* no "total" row
StatNoTotal == Table(<<Row(S_a, 2, S_50pct)>>)

\* the atomic action "b" ahead of "total", "a" missing
StatB == Table(<<Row(S_b, 2, S_100pct), Row(S_total, 5, S_100pct)>>)

\* a duration of "total" is "n/a", and the Success of "a" is "n/a"
StatNA == Table(<<RowMinNA(S_total, 2, S_100pct), Row(S_a, 2, S_na)>>)

\* the table lacks a duration column
StatNoMax == DropCol(FullCols, StatOK(1).rows, "Max (sec)")

\* sla lists
Sla(bs) == [i \in 1..Len(bs) |-> [success |-> bs[i]]]

\* info.tstamp_start is given in microseconds: 1500 is 0.0015 s
Result(name, kw, sla, tstamp, stat) ==
    [key |-> [name |-> name, kw |-> kw],
     info |-> [stat |-> stat, tstamp_start |-> tstamp],
     sla |-> Sla(sla)]

\* ["a"], "a" and a mapping that holds a set
KwListA == PyList(<<PyStr(S_a)>>)
KwTextA == PyStr(S_a)
KwBad == PyDict(<<PyPair(PyStr(S_a), PyList(<<PySet(<<>>)>>))>>)

\* the results add_result is called with
Results ==
    \* the same run of one configuration, with each sla list
    { Result(S_NameBy, KwA1, sla, 1000, StatOK(1)) :
        sla \in { <<TRUE>>, <<FALSE>>, <<FALSE, TRUE>> } }
    \* other configurations
    \cup { Result(S_NameBy, kw, <<FALSE>>, 1000, StatOK(1)) :
             kw \in { KwA2, KwListA, KwTextA, KwBad } }
    \cup { Result(S_NameAx, KwB, <<FALSE>>, 1000, StatOK(1)) }
    \* other start times, 1500 in the millisecond of 1000, and other durations
    \cup { Result(S_NameBy, KwA1, <<>>, tstamp, StatOK(3)) : tstamp \in { 1500, 2000 } }
    \* other stat tables
    \cup { Result(S_NameBy, KwA1, <<FALSE>>, 1000, stat) :
             stat \in { StatNoTotal, StatB, StatNA, StatNoMax } }

----------------------------------------------------------------------------
(* Trends.add_result *)

\* str.find(c) + 1: the position of the first c in s, 0 when there is none
FirstPos(s, c) ==
    IF \E i \in 1..Len(s) : s[i] = c
    THEN CHOOSE i \in 1..Len(s) : s[i] = c /\ \A j \in 1..(i - 1) : s[j] # c
    ELSE 0

\* dict(zip(cols, row)): the cell of the last position of col among the zipped ones
ZipHas(cols, row, col) ==
    \E i \in 1..Len(cols) : i <= Len(row) /\ cols[i] = col

ZipGet(cols, row, col) ==
    LET n == IF Len(cols) < Len(row) THEN Len(cols) ELSE Len(row)
        p == CHOOSE i \in 1..n : cols[i] = col /\ \A j \in (i + 1)..n : cols[j] # col
    IN  row[p]

\* stat = {row[0]: dict(zip(cols, row)) for row in rows}: the actions in the
\* order first met, each with its last row
StatNames(rows) ==
    LET RECURSIVE Names(_)
        Names(i) ==
            IF i = 0 THEN <<>>
            ELSE LET before == Names(i - 1)
                 IN  IF \E j \in 1..Len(before) : before[j] = rows[i][1].s
                     THEN before
                     ELSE Append(before, rows[i][1].s)
    IN  Names(Len(rows))

StatRow(rows, action) ==
    rows[CHOOSE i \in 1..Len(rows) :
            rows[i][1].s = action /\ \A j \in (i + 1)..Len(rows) : rows[j][1].s # action]

\* int(result["info"]["tstamp_start"] * 1000)
TsMillis(tstamp) == tstamp \div 1000

\* float(text) for a text of digits with at most one digit after a point, in
\* tenths; any other text raises ValueError
IsDigit(c) == c >= 48 /\ c <= 57

RECURSIVE DigitsValue(_)
DigitsValue(s) ==
    IF s = <<>> THEN 0 ELSE 10 * DigitsValue(Slice(s, 1, Len(s) - 1)) + (s[Len(s)] - 48)

ParseFloat(s) ==
    LET dot == FirstPos(s, 46)
        whole == IF dot = 0 THEN s ELSE Slice(s, 1, dot - 1)
        frac == IF dot = 0 THEN <<>> ELSE Slice(s, dot + 1, Len(s))
    IN  IF /\ Len(whole) + Len(frac) > 0
           /\ Len(frac) <= 1
           /\ \A i \in 1..Len(whole) : IsDigit(whole[i])
           /\ \A i \in 1..Len(frac) : IsDigit(frac[i])
        THEN Ok(10 * DigitsValue(whole) + DigitsValue(frac))
        ELSE Raise("ValueError")

\* try: float(stat[action]["Success"].rstrip("%")) except ValueError: 0
\* (a cell that is no text has no rstrip)
SuccessOf(cell) ==
    IF cell.t # "str" THEN Raise("AttributeError")
    ELSE LET f == ParseFloat(RStripChars(cell.s, {37}))
         IN  IF f.exc = "ValueError" THEN Ok(Num(0)) ELSE Ok(Num(f.v))

\* the duration series of an action and the column each is read from
DurTargets == <<"min", "median", "90%ile", "95%ile", "max", "avg">>
DurSources ==
    <<"Min (sec)", "Median (sec)", "90%ile (sec)", "95%ile (sec)", "Max (sec)",
      "Avg (sec)">>

NewAction(name) ==
    [name |-> name,
     durations |-> [t \in { DurTargets[i] : i \in 1..Len(DurTargets) } |-> <<>>],
     success |-> <<>>]

\* the group as a new key gets it
NewGroup(key, result) ==
    [key |-> key,
     actions |-> <<>>,
     sla_failures |-> 0,
     name |-> result.key.name,
     config |-> result.key.kw]

\* a counter of the sla entries that succeeded
SlaSuccessesOf(sla) == Cardinality({ i \in 1..Len(sla) : sla[i].success })

\* what "sla_failures += not sla["success"]" adds over the sla list
SlaFailuresOf(sla) == Cardinality({ i \in 1..Len(sla) : ~sla[i].success })

\* a fold that puts the new sample ahead of the stored ones
PrependSample(series, ts, value) == <<<<ts, value>>>> \o series

\* series.append((ts, value))
AppendSample(series, ts, value) == Append(series, <<ts, value>>)

\* the body of "for action in stat" for one action, on group g: the group after
\* it and the exception that ended it
FoldAction(g, cols, row, ts) ==
    LET action == row[1].s
        g1 == IF \E i \in 1..Len(g.actions) : g.actions[i].name = action
              THEN g
              ELSE [g EXCEPT !.actions = Append(@, NewAction(action))]
        p == CHOOSE i \in 1..Len(g1.actions) : g1.actions[i].name = action
        RECURSIVE Durs(_, _)
        Durs(gg, k) ==
            IF k > Len(DurTargets) THEN [g |-> gg, exc |-> ""]
            ELSE IF ~ZipHas(cols, row, DurSources[k]) THEN [g |-> gg, exc |-> "KeyError"]
            ELSE Durs([gg EXCEPT !.actions[p].durations[DurTargets[k]] =
                          AppendSample(@, ts, ZipGet(cols, row, DurSources[k]))],
                      k + 1)
    IN  IF ~ZipHas(cols, row, "Success") THEN [g |-> g1, exc |-> "KeyError"]
        ELSE LET success == SuccessOf(ZipGet(cols, row, "Success"))
             IN  IF success.exc # "" THEN [g |-> g1, exc |-> success.exc]
                 ELSE Durs([g1 EXCEPT !.actions[p].success = AppendSample(@, ts, success.v)],
                           1)

\* "for action in stat": the actions in order, up to the first exception
FoldActions(g, stat, ts) ==
    LET names == StatNames(stat.rows)
        RECURSIVE Loop(_, _)
        Loop(gg, i) ==
            IF i > Len(names) THEN [g |-> gg, exc |-> ""]
            ELSE LET r == FoldAction(gg, stat.cols, StatRow(stat.rows, names[i]), ts)
                 IN  IF r.exc # "" THEN r ELSE Loop(r.g, i + 1)
    IN  Loop(g, 1)

\* add_result(result) on the groups d: the groups after the call and the
\* exception it raised
AddResultOutcome(d, result) ==
    LET key == MakeHash(result.key.kw)
    IN  IF key.exc # "" THEN [data |-> d, exc |-> key.exc, key |-> <<>>]
        ELSE
        LET d1 == IF \E i \in 1..Len(d) : d[i].key = key.v
                  THEN d
                  ELSE Append(d, NewGroup(key.v, result))
            p == CHOOSE i \in 1..Len(d1) : d1[i].key = key.v
            d2 == [d1 EXCEPT ![p].sla_failures = @ + SlaFailuresOf(result.sla)]
            r == FoldActions(d2[p], result.info.stat, TsMillis(result.info.tstamp_start))
        IN  [data |-> [d2 EXCEPT ![p] = r.g], exc |-> r.exc, key |-> key.v]

----------------------------------------------------------------------------
(* Trends.get_data *)

\* a < b on the values of a series, where the interpreter defines it: numbers
\* by value, texts by code point, and (Python 2 only) any number below any text
CellLess(a, b) ==
    IF a.t = "num" /\ b.t = "num" THEN a.n < b.n
    ELSE IF a.t = "str" /\ b.t = "str" THEN StrLess(a.s, b.s)
    ELSE a.t = "num"

\* (ts, value) < (ts, value) on tuples: by the first elements that differ
PairLess(x, y) ==
    IF x[1] # y[1] THEN x[1] < y[1]
    ELSE IF x[2] = y[2] THEN FALSE
    ELSE CellLess(x[2], y[2])

RECURSIVE InsertPair(_, _)
InsertPair(s, x) ==
    IF s = <<>> THEN <<x>>
    ELSE IF PairLess(x, Head(s)) THEN <<x>> \o s
    ELSE <<Head(s)>> \o InsertPair(Tail(s), x)

RECURSIVE SortedPairs(_)
SortedPairs(s) ==
    IF s = <<>> THEN <<>>
    ELSE InsertPair(SortedPairs(Slice(s, 1, Len(s) - 1)), s[Len(s)])

\* sorted(v) of a series. Python 3 raises TypeError when it orders a number
\* against a text, which tuple comparison does for two entries of one
\* timestamp; any comparison sort compares some such pair, as nothing else
\* orders the entries of one timestamp among themselves.
SortedSeries(s) ==
    IF py3 /\ \E i, j \in 1..Len(s) : s[i][1] = s[j][1] /\ s[i][2].t # s[j][2].t
    THEN Raise("TypeError")
    ELSE Ok(SortedPairs(s))

\* text.split(sep) on one separator code point
RECURSIVE Split(_, _)
Split(s, sep) ==
    LET p == FirstPos(s, sep)
    IN  IF p = 0 THEN <<s>>
        ELSE <<Slice(s, 1, p - 1)>> \o Split(Slice(s, p + 1, Len(s)), sep)

\* charts.streaming.MinComputation, MaxComputation, MeanComputation: add a
\* sample, read the result; no result is None
NoResult == [none |-> TRUE, num |-> 0, den |-> 1]

MinAdd(st, x) == IF st.none \/ x < st.num THEN [none |-> FALSE, num |-> x, den |-> 1] ELSE st

MaxAdd(st, x) == IF st.none \/ x > st.num THEN [none |-> FALSE, num |-> x, den |-> 1] ELSE st

\* the mean as the fraction total / count
MeanAdd(st, x) ==
    IF st.none THEN [none |-> FALSE, num |-> x, den |-> 1]
    ELSE [none |-> FALSE, num |-> st.num + x, den |-> st.den + 1]

\* a filter that lets every entry through
AnySample(cell) == TRUE

\* isinstance(i[1], (float,) + six.integer_types)
IsNumericSample(cell) == cell.t = "num"

\* for k, v in trend["durations"]: for i in v: the values fed to a reducer
RECURSIVE Samples(_)
Samples(durs) ==
    IF durs = <<>> THEN <<>>
    ELSE LET v == Head(durs)[2]
         IN  [i \in 1..Len(v) |-> v[i][2]] \o Samples(Tail(durs))

\* comp.add(x) on the reducer of trend["stat"][stat]
CompAdd(stat, st, x) ==
    CASE stat = "min" -> MinAdd(st, x)
      [] stat = "max" -> MaxAdd(st, x)
      [] stat = "avg" -> MeanAdd(st, x)

\* one fresh reducer over the samples of the group-level durations
RECURSIVE Reduce(_, _, _)
Reduce(stat, st, xs) ==
    IF xs = <<>> THEN st
    ELSE Reduce(stat,
                IF IsNumericSample(Head(xs)) THEN CompAdd(stat, st, Head(xs).n) ELSE st,
                Tail(xs))

TrendStat(durs) ==
    [stat \in {"min", "max", "avg"} |-> Reduce(stat, NoResult, Samples(durs))]

\* action_durs and the sorted success series of one action
ActionView(a) ==
    LET ds == [k \in 1..Len(DurTargets) |-> SortedSeries(a.durations[DurTargets[k]])]
        ss == SortedSeries(a.success)
    IN  IF FirstExc(ds) # "" THEN Raise(FirstExc(ds))
        ELSE IF ss.exc # "" THEN ss
        ELSE Ok([name |-> a.name,
                 durations |-> [k \in 1..Len(DurTargets) |-> <<DurTargets[k], ds[k].v>>],
                 success |-> << <<"success", ss.v>> >>])

\* trend["actions"]: every action but "total"
ActionsListed(views) == SelectSeq(views, LAMBDA a : a.name # S_total)

\* the body of "for wload in self._data.values()": the trend of one group
TrendOf(g) ==
    LET parts == Split(g.name, 46)
        vs == [i \in 1..Len(g.actions) |-> ActionView(g.actions[i])]
        views == [i \in 1..Len(vs) |-> vs[i].v]
        tp == FirstPos([i \in 1..Len(views) |-> views[i].name], S_total)
    IN  IF Len(parts) < 2 THEN Raise("IndexError")
        ELSE IF FirstExc(vs) # "" THEN Raise(FirstExc(vs))
        ELSE IF tp = 0 THEN Raise("KeyError")
        ELSE Ok([stat |-> TrendStat(views[tp].durations),
                 name |-> g.name,
                 cls |-> parts[1],
                 met |-> parts[2],
                 sla_failures |-> g.sla_failures,
                 config |-> g.config,
                 actions |-> ActionsListed(views),
                 length |-> Len(g.actions[tp].success),
                 durations |-> views[tp].durations,
                 success |-> views[tp].success])

\* sorted(trends, key=lambda i: i["name"])
RECURSIVE InsertTrend(_, _)
InsertTrend(s, x) ==
    IF s = <<>> THEN <<x>>
    ELSE IF StrLess(x.name, Head(s).name) THEN <<x>> \o s
    ELSE <<Head(s)>> \o InsertTrend(Tail(s), x)

RECURSIVE SortedByName(_)
SortedByName(s) ==
    IF s = <<>> THEN <<>>
    ELSE InsertTrend(SortedByName(Slice(s, 1, Len(s) - 1)), s[Len(s)])

\* get_data() on the groups d: the list returned, or the exception raised
GetDataOutcome(d) ==
    LET ts == [i \in 1..Len(d) |-> TrendOf(d[i])]
    IN  IF FirstExc(ts) # "" THEN Raise(FirstExc(ts))
        ELSE Ok(SortedByName([i \in 1..Len(ts) |-> ts[i].v]))

----------------------------------------------------------------------------
(* The Trends object under its callers *)

Init ==
    /\ data = <<>>
    /\ ret = [op |-> "init", exc |-> "", v |-> <<>>]
    /\ log = <<>>
    /\ py3 \in BOOLEAN
    /\ orig = PyNone
    /\ obj = PyNone
    /\ canon0 = MakeHash(PyNone)
    /\ canon = MakeHash(PyNone)

\* the caller folds the results one at a time, going on after a call that
\* raised or not, and asks for the data at the end
AddResult ==
    /\ ret.op # "get_data"
    /\ Len(log) < MaxFolds
    /\ \E result \in Results :
          \E r \in {AddResultOutcome(data, result)} :
              /\ data' = r.data
              /\ ret' = [op |-> "add_result", exc |-> r.exc, v |-> <<>>]
              /\ log' = Append(log, [result |-> result, exc |-> r.exc, key |-> r.key])
    /\ UNCHANGED <<py3, obj, orig, canon, canon0>>

GetData ==
    /\ ret.op # "get_data"
    /\ \E r \in {GetDataOutcome(data)} :
          ret' = [op |-> "get_data", exc |-> r.exc, v |-> r.v]
    /\ UNCHANGED <<data, log, py3, obj, orig, canon, canon0>>

Next == AddResult \/ GetData

Spec == Init /\ [][Next]_vars

----------------------------------------------------------------------------
(* Properties *)

LogIdx == 1..Len(log)
KwOf(i) == log[i].result.key.kw

\* the calls that got past _make_hash: their result went into a group
Grouped(i) == log[i].exc # "TypeError"

\* equal up to the order of the elements of sequences and of the items of
\* mappings, at every depth
RECURSIVE SameStructure(_, _)
SameStructure(a, b) ==
    /\ a.t = b.t
    /\ a.n = b.n
    /\ a.s = b.s
    /\ Len(a.kids) = Len(b.kids)
    /\ IF a.t = "pair"
       THEN \A i \in 1..2 : SameStructure(a.kids[i], b.kids[i])
       ELSE \E q \in Permutations(1..Len(a.kids)) :
               \A i \in 1..Len(a.kids) : SameStructure(a.kids[i], b.kids[q[i]])

\* a value of a type _to_str does not know, at any depth
RECURSIVE HasUnsupported(_)
HasUnsupported(o) ==
    \/ o.t \notin {"none", "str", "int", "float", "list", "dict", "pair"}
    \/ \E i \in 1..Len(o.kids) : HasUnsupported(o.kids[i])

\* the groups after add_result on each of the results es, in order, from none
RECURSIVE Replay(_)
Replay(es) ==
    IF es = <<>> THEN <<>>
    ELSE AddResultOutcome(Replay(Slice(es, 1, Len(es) - 1)), es[Len(es)].result).data

\* the group a trend renders: groups have distinct keys, so distinct configs
GroupOf(trend) == data[CHOOSE i \in 1..Len(data) : data[i].config = trend.config]

ActionNamed(g, name) ==
    g.actions[CHOOSE i \in 1..Len(g.actions) : g.actions[i].name = name]

HasRow(result, action) ==
    \E r \in 1..Len(result.info.stat.rows) : result.info.stat.rows[r][1].s = action

Returned == ret.op = "get_data" /\ ret.exc = ""

\* no add_result call has raised
AllFolded == \A i \in LogIdx : log[i].exc = ""

\* C1: two results share a group exactly when their kw are equal up to the
\* order of mapping keys and sequence elements, and get_data returns one
\* group per distinct kw
C1_GroupIffSameKw ==
    /\ \A i, j \in LogIdx :
          Grouped(i) /\ Grouped(j) =>
             ((log[i].key = log[j].key) <=> SameStructure(KwOf(i), KwOf(j)))
    /\ Returned =>
          Len(ret.v) = Cardinality({ i \in LogIdx :
                          /\ Grouped(i)
                          /\ \A j \in 1..(i - 1) :
                                Grouped(j) => ~SameStructure(KwOf(j), KwOf(i)) })

\* out is s sorted by timestamp alone, entries of one timestamp in the order of s
IsStableByTs(out, s) ==
    /\ Len(out) = Len(s)
    /\ \E q \in Permutations(1..Len(s)) :
          /\ \A i \in 1..Len(s) : out[i] = s[q[i]]
          /\ \A i, j \in 1..Len(s) :
                i < j => \/ out[i][1] < out[j][1]
                         \/ out[i][1] = out[j][1] /\ q[i] < q[j]

\* C3: every series get_data returns is the stored series sorted ascending by
\* timestamp, entries of equal timestamp in the order they were folded (stated
\* for the runs in which every add_result call succeeded)
C3_SortedStable ==
    (AllFolded /\ Returned) =>
       \A t \in 1..Len(ret.v) :
          LET trend == ret.v[t]
              g == GroupOf(trend)
              total == ActionNamed(g, S_total)
          IN  /\ IsStableByTs(trend.success[1][2], total.success)
              /\ \A k \in 1..Len(DurTargets) :
                    IsStableByTs(trend.durations[k][2], total.durations[DurTargets[k]])
              /\ \A a \in 1..Len(trend.actions) :
                    LET stored == ActionNamed(g, trend.actions[a].name)
                    IN  /\ IsStableByTs(trend.actions[a].success[1][2], stored.success)
                        /\ \A k \in 1..Len(DurTargets) :
                              IsStableByTs(trend.actions[a].durations[k][2],
                                           stored.durations[DurTargets[k]])

\* the samples the calls of the log put into a series of action `name` of the
\* group `key`: one per call into the group whose stat rows hold the action
RECURSIVE Folded(_, _, _, _)
Folded(i, key, name, col) ==
    IF i = 0 THEN <<>>
    ELSE LET before == Folded(i - 1, key, name, col)
             result == log[i].result
             stat == result.info.stat
         IN  IF log[i].exc = "" /\ log[i].key = key /\ HasRow(result, name)
             THEN LET cell == ZipGet(stat.cols, StatRow(stat.rows, name), col)
                  IN  Append(before,
                             <<TsMillis(result.info.tstamp_start),
                               IF col = "Success" THEN SuccessOf(cell).v ELSE cell>>)
             ELSE before

\* C4: after successful add_result calls (and calls that failed on the kw),
\* every group holds exactly the actions met in its runs, and the success
\* series and each duration series of an action hold one entry per run of the
\* group that had the action, in the order of the calls
C4_AppendOnly ==
    (\A i \in LogIdx : log[i].exc \in {"", "TypeError"}) =>
       \A g \in 1..Len(data) :
          /\ \A i \in LogIdx : \A r \in 1..Len(log[i].result.info.stat.rows) :
                log[i].key = data[g].key =>
                   \E a \in 1..Len(data[g].actions) :
                      data[g].actions[a].name = log[i].result.info.stat.rows[r][1].s
          /\ \A a \in 1..Len(data[g].actions) :
                LET act == data[g].actions[a]
                IN  /\ act.success = Folded(Len(log), data[g].key, act.name, "Success")
                    /\ Len(act.success) =
                          Cardinality({ i \in LogIdx :
                             /\ log[i].exc = ""
                             /\ log[i].key = data[g].key
                             /\ HasRow(log[i].result, act.name) })
                    /\ \A k \in 1..Len(DurTargets) :
                          act.durations[DurTargets[k]] =
                             Folded(Len(log), data[g].key, act.name, DurSources[k])

\* three runs went into one group, one of them without an action the others had
C4_Witness ==
    /\ Len(log) = 3
    /\ \A i \in LogIdx : log[i].exc = ""
    /\ \E g \in 1..Len(data) : \E a, b \in 1..Len(data[g].actions) :
          /\ Len(data[g].actions[a].success) = 3
          /\ Len(data[g].actions[b].durations["max"]) = 1

\* the sla entries with success false of the calls 1..i that went into the
\* group `key`
RECURSIVE SlaFalse(_, _)
SlaFalse(i, key) ==
    IF i = 0 THEN 0
    ELSE SlaFalse(i - 1, key)
         + (IF Grouped(i) /\ log[i].key = key
            THEN Cardinality({ k \in 1..Len(log[i].result.sla) :
                                 ~log[i].result.sla[k].success })
            ELSE 0)

\* C5: after any add_result calls, sla_failures of a group is the number of sla
\* entries with success false over the runs that went into the group (a run
\* whose call raised later, on its stat table, has gone into its group and is
\* counted); so it never decreases, and a call into one group leaves the
\* counters of the others
C5_SlaFailuresCount ==
    /\ \A i \in LogIdx : Grouped(i) => \E g \in 1..Len(data) : data[g].key = log[i].key
    /\ \A g \in 1..Len(data) : data[g].sla_failures = SlaFalse(Len(log), data[g].key)

\* the sla lists [true], [false], [false, true] went into one group, in any
\* order, and count 2
C5_Witness ==
    /\ Len(log) = 3
    /\ \A i \in LogIdx : log[i].key = log[1].key /\ Grouped(i)
    /\ { log[i].result.sla : i \in LogIdx } =
          { Sla(<<TRUE>>), Sla(<<FALSE>>), Sla(<<FALSE, TRUE>>) }
    /\ \E g \in 1..Len(data) : data[g].key = log[1].key /\ data[g].sla_failures = 2

\* C6: add_result on a kw that holds a value of unsupported type, at any
\* depth, raises TypeError and leaves every group, counter and series as it
\* was; what a later call does depends on the groups and its result alone, so
\* it does what it would have done without the failed call
C6_UnsupportedAborts ==
    [][(Len(log') = Len(log) + 1 /\ HasUnsupported(log'[Len(log')].result.key.kw))
         => (ret'.op = "add_result" /\ ret'.exc = "TypeError" /\ data' = data)]_vars

\* a call failed on its kw between two calls that went into groups of their
\* own, and nothing of it is in the groups
C6_Witness ==
    /\ Len(log) = 3
    /\ HasUnsupported(KwOf(2))
    /\ log[1].exc = "" /\ log[3].exc = ""
    /\ ret.op = "add_result"
    /\ Len(data) = 2
    /\ data = Replay(<<log[1], log[3]>>)

\* the stat table has every column add_result reads
WellFormed(result) ==
    /\ \A k \in 1..Len(DurSources) :
          \E c \in 1..Len(result.info.stat.cols) : result.info.stat.cols[c] = DurSources[k]
    /\ \E c \in 1..Len(result.info.stat.cols) : result.info.stat.cols[c] = "Success"

\* C7: a Success of "n/a" is recorded as 0 and add_result does not fail on it
\* or on a duration that is no number, and get_data does not fail on such a
\* duration either
C7_NonNumericTolerated ==
    /\ \A i \in LogIdx :
          WellFormed(log[i].result) /\ ~HasUnsupported(KwOf(i)) =>
             /\ log[i].exc = ""
             /\ \A r \in 1..Len(log[i].result.info.stat.rows) :
                   LET row == log[i].result.info.stat.rows[r]
                       g == data[CHOOSE g \in 1..Len(data) : data[g].key = log[i].key]
                   IN  ZipGet(FullCols, row, "Success") = Txt(S_na) =>
                          \E k \in 1..Len(ActionNamed(g, row[1].s).success) :
                             ActionNamed(g, row[1].s).success[k]
                                = <<TsMillis(log[i].result.info.tstamp_start), Num(0)>>
    /\ (AllFolded /\ ret.op = "get_data") => ret.exc # "TypeError"

\* C8: get_data returns one group for every group add_result made, also for
\* one with no "total" row: "total" is not among its actions and every other
\* action is, once, in the order first met (stated for the runs in which every
\* add_result call succeeded and no series mixes numbers and texts)
C8_EveryGroupRendered ==
    (AllFolded /\ ret.op = "get_data" /\ ret.exc # "TypeError") =>
       /\ ret.exc = ""
       /\ Len(ret.v) = Len(data)
       /\ \A t \in 1..Len(ret.v) :
             LET others == SelectSeq(GroupOf(ret.v[t]).actions, LAMBDA a : a.name # S_total)
             IN  /\ Len(ret.v[t].actions) = Len(others)
                 /\ \A a \in 1..Len(others) : ret.v[t].actions[a].name = others[a].name

\* the numeric values of the six series of "total" of group g, as the set of
\* their places
TotalPlaces(g) ==
    { <<k, i>> \in (1..Len(DurTargets)) \X (1..(MaxFolds + 1)) :
         /\ i <= Len(ActionNamed(g, S_total).durations[DurTargets[k]])
         /\ ActionNamed(g, S_total).durations[DurTargets[k]][i][2].t = "num" }

PlaceValue(g, pl) == ActionNamed(g, S_total).durations[DurTargets[pl[1]]][pl[2]][2].n

RECURSIVE SumOfPlaces(_, _)
SumOfPlaces(g, P) ==
    IF P = {} THEN 0
    ELSE LET pl == CHOOSE x \in P : TRUE
         IN  PlaceValue(g, pl) + SumOfPlaces(g, P \ {pl})

\* C9: stat.min, stat.max and stat.avg of a returned group are the minimum,
\* the maximum and the mean of the numeric values of the six "total" duration
\* series together, and no result when there is none
C9_StatOfTotal ==
    Returned =>
       \A t \in 1..Len(ret.v) :
          LET g == GroupOf(ret.v[t])
              P == TotalPlaces(g)
              stat == ret.v[t].stat
          IN  IF P = {}
              THEN stat.min = NoResult /\ stat.max = NoResult /\ stat.avg = NoResult
              ELSE /\ ~stat.min.none /\ ~stat.max.none /\ ~stat.avg.none
                   /\ stat.min.den = 1 /\ stat.max.den = 1
                   /\ \E pl \in P : PlaceValue(g, pl) = stat.min.num
                   /\ \A pl \in P : PlaceValue(g, pl) >= stat.min.num
                   /\ \E pl \in P : PlaceValue(g, pl) = stat.max.num
                   /\ \A pl \in P : PlaceValue(g, pl) <= stat.max.num
                   /\ stat.avg.num * Cardinality(P) = SumOfPlaces(g, P) * stat.avg.den

\* a group was returned whose "total" holds a duration that is no number beside
\* numbers, and that has another action
C9_Witness ==
    /\ Returned
    /\ \E t \in 1..Len(ret.v) :
          /\ ret.v[t].actions # <<>>
          /\ ret.v[t].stat.min.num < ret.v[t].stat.max.num
          /\ \E k \in 1..Len(DurTargets) : \E i \in 1..Len(ret.v[t].durations[k][2]) :
                ret.v[t].durations[k][2][i][2].t = "str"

\* C10: an add_result that fails leaves the groups as they were: the groups
\* are those of the calls that did not fail
C10_FailedFoldLeavesNothing ==
    data = Replay(SelectSeq(log, LAMBDA e : e.exc = ""))

====
